---- MODULE Spec2Model ----
(***************************************************************************)
(* Model of the chatbot widget of src/js/jscript2.js: the lazily loaded    *)
(* popup, the text and voice query cycles, the session-stored chat history *)
(* and open flag, the durable voice-navigation preference, the redirects.  *)
(*                                                                         *)
(* Strings are sequences of characters (one-character TLA+ strings), so    *)
(* that trim, toLowerCase, includes, replace and + are computed.  A fixed  *)
(* literal of the code that is never inspected is one opaque letter.       *)
(* An optional value (a JSON field, a storage item) is None or <<v>>.      *)
(***************************************************************************)
EXTENDS Integers, Sequences, FiniteSets, TLC

----------------------------------------------------------------------------
(* Bounds of the model *)

\* popup-markup fetches in flight at once (clicks before the first completes)
MaxMarkupPending == 2
\* messages kept in chatHistory when a text query is submitted: a query is
\* submitted while its two messages leave the history within this length
MaxHistory == 4
\* the same for a recording that is started
MaxVoiceHistory == 2
\* text or voice requests in flight at once, per page
MaxPending == 1
\* MediaRecorder objects created per popup
MaxRecorders == 2
\* text requests in flight at once where overlapping queries are studied
MaxOverlap == 2
\* clicks on the navigation control per page
MaxClicks == 3
\* calls of ensureChatbotButton per page
MaxCalls == 2
\* the largest pointer coordinate, and the largest offset of the popup content
MaxCoord == 1

----------------------------------------------------------------------------
(* Strings *)

None == <<>>
Some(v) == <<v>>

\* the characters String.prototype.trim removes that an input box can hold
WhiteSpace == {" ", "\t"}

RECURSIVE TrimStart(_)
TrimStart(s) ==
  IF s /= <<>> /\ Head(s) \in WhiteSpace THEN TrimStart(Tail(s)) ELSE s

RECURSIVE TrimEnd(_)
TrimEnd(s) ==
  IF s /= <<>> /\ s[Len(s)] \in WhiteSpace
  THEN TrimEnd(SubSeq(s, 1, Len(s) - 1)) ELSE s

\* a sendQuery that reads the input without trimming it
TrimNot(s) == s

\* String.prototype.trim
Trim(s) == TrimEnd(TrimStart(s))

\* toLowerCase on one character, for the letters the inputs use
LowerChar(c) ==
  CASE c = "A" -> "a" [] c = "B" -> "b" [] c = "C" -> "c"
    [] c = "M" -> "m" [] c = "H" -> "h" [] c = "I" -> "i"
    [] OTHER -> c

\* String.prototype.toLowerCase
ToLowerCase(s) == [i \in 1..Len(s) |-> LowerChar(s[i])]

\* the first index at which k occurs in s, 0 when it does not (indexOf + 1)
IndexOf(s, k) ==
  LET hits == {i \in 1..(Len(s) - Len(k) + 1) : SubSeq(s, i, i + Len(k) - 1) = k}
  IN IF hits = {} THEN 0 ELSE CHOOSE i \in hits : \A j \in hits : i <= j

\* String.prototype.includes
Includes(s, k) == IndexOf(s, k) /= 0

\* String.prototype.replace(k, r) with a string pattern: the first occurrence
Replace(s, k, r) ==
  LET i == IndexOf(s, k)
  IN IF i = 0 THEN s
     ELSE SubSeq(s, 1, i - 1) \o r \o SubSeq(s, i + Len(k), Len(s))

\* JavaScript truthiness of an optional string: present and not empty
Truthy(m) == m /= None /\ m[1] /= <<>>

DotHtml == <<".", "h", "t", "m", "l">>

\* the keyword table of sendQuery, in property (insertion) order
keywords ==
  << <<<<"m","b","a">>, <<"m","b","a",".","h","t","m","l">>>>,
     <<<<"m","c","a">>, <<"m","c","a",".","h","t","m","l">>>>,
     <<<<"b","b","a">>, <<"b","b","a",".","h","t","m","l">>>>,
     <<<<"b","c","a">>, <<"b","c","a",".","h","t","m","l">>>>,
     <<<<"m","a">>, <<"m","a",".","h","t","m","l">>>>,
     <<<<"b","a">>, <<"b","a",".","h","t","m","l">>>>,
     <<<<"s","c","h","o","l","a","r","s","h","i","p">>,
       <<"i","n","d","e","x","4",".","h","t","m","l">>>>,
     <<<<"c","o","u","r","s","e","s">>,
       <<"i","n","d","e","x","3",".","h","t","m","l">>>> >>

\* a keyword loop that lets the last matching key of the table win
KeywordTargetLast(lower) ==
  LET hits == {i \in 1..Len(keywords) : Includes(lower, keywords[i][1])}
  IN IF hits = {} THEN None
     ELSE LET i == CHOOSE h \in hits : \A j \in hits : h >= j
          IN Some(<<"/">> \o Replace(keywords[i][2], DotHtml, <<>>))

\* for (const key in keywords) if (lower.includes(key)) ...: the target of the
\* first key, in table order, that the text includes; None when no key does
KeywordTarget(lower) ==
  LET hits == {i \in 1..Len(keywords) : Includes(lower, keywords[i][1])}
  IN IF hits = {} THEN None
     ELSE LET i == CHOOSE h \in hits : \A j \in hits : h <= j
          IN Some(<<"/">> \o Replace(keywords[i][2], DotHtml, <<>>))

----------------------------------------------------------------------------
(* Fixed texts of the code (opaque letters) *)

LoadingText == <<"...loading">>
NoAnswerText == <<"No answer received.">>
ErrorPrefix == <<"Error: ">>
SendErrorText == <<"Error sending query (see console)">>
SpeakNowText == <<"Speak now...">>
ProcessingText == <<"Processing...">>
MicErrorPrefix == <<"X Error: ">>
MicSendFailedText == <<"Mic send failed">>
MicAccessFailedText == <<"Microphone access or recording failed">>

ToastSkipped == "Redirect skipped - Voice Navigation is OFF"
ToastMicDenied == "Mic permission denied or unavailable"
ToastLoadFailed == "Failed to load chatbot popup"
ToastVoiceOn == "Voice Navigation: ON"
ToastVoiceOff == "Voice Navigation: OFF"
NoToast == "none"

----------------------------------------------------------------------------
(* JSON: the chatHistory item is the array's members in document order,     *)
(* two per object; parsing reads each object's members back by key.         *)

\* JSON.stringify of one {text, from} object
StringifyMessage(m) ==
  << [k |-> "text", v |-> m.text], [k |-> "from", v |-> <<m.from>>] >>

RECURSIVE Stringify(_)
\* JSON.stringify(history)
Stringify(h) ==
  IF h = <<>> THEN <<>> ELSE StringifyMessage(Head(h)) \o Stringify(Tail(h))

\* the value of member key of the object whose members are a and b
MemberOf(a, b, key) == (CHOOSE m \in {a, b} : m.k = key).v

RECURSIVE Parse(_)
\* JSON.parse of a stringified history
Parse(j) ==
  IF Len(j) < 2 THEN <<>>
  ELSE << [text |-> MemberOf(j[1], j[2], "text"),
           from |-> MemberOf(j[1], j[2], "from")[1]] >>
       \o Parse(SubSeq(j, 3, Len(j)))

\* JSON.parse(sessionStorage.getItem("chatHistory") || "[]")
HistoryOf(item) == IF item = None THEN <<>> ELSE Parse(item[1])

----------------------------------------------------------------------------
(* State *)

VARIABLES
  ssChatHistory,  \* sessionStorage "chatHistory": None or <<JSON text>>
  ssChatbotOpen,  \* sessionStorage "chatbotOpen": "null", "true" or "false"
  lsVoiceNav,     \* localStorage "voiceNavEnabled": "null", "true" or "false"
  popupLoaded,    \* the popupLoaded flag of the page's script
  markupPending,  \* popup-markup fetches in flight
  popups,         \* the #chatbotPopup elements attached to body, in document order
  pending,        \* /ask_bot/ and /record_and_transcribe/ requests in flight
  toast,          \* the text the toast shows, NoToast when it shows none
  redirectLog,    \* the values assigned to window.location.href on this page
  audioLog,       \* the audio files whose playback was started on this page
  autoTimer,      \* the 300 ms auto-reopen timer is armed
  appended,       \* history variable: the appendMessage calls since the last clear
  lastEvent,      \* history variable: the handler that ran last, and the response it read
  dom             \* the page outside the popup: navigation menu, course modal, button

vars == << ssChatHistory, ssChatbotOpen, lsVoiceNav, popupLoaded, markupPending,
           popups, pending, toast, redirectLog, audioLog, autoTimer, appended,
           lastEvent, dom >>

NoData == [answer |-> None, error |-> None, redirect |-> None,
           audio_file |-> None, transcript |-> None]

\* the value of lastEvent: the handler and, for a response, its JSON body
Ev(op, data) == [op |-> op, data |-> data]

\* a chat bubble: a div of the chat container.  cls is the sender class of a
\* chat-message div, "plain" for a placeholder; id tells placeholders apart
Bubble(cls, text, id) == [cls |-> cls, text |-> text, id |-> id]

\* the chat-message divs of a container, as {text, from} objects
Messages(chat) ==
  LET F[i \in 0..Len(chat)] ==
        IF i = 0 THEN <<>>
        ELSE IF chat[i].cls = "plain" THEN F[i - 1]
        ELSE Append(F[i - 1], [text |-> chat[i].text, from |-> chat[i].cls])
  IN F[Len(chat)]

\* a remove() that leaves the placeholder in the container
RemoveBubbleNot(chat, id) == chat

\* element.remove() of the placeholder with this id
RemoveBubble(chat, id) == SelectSeq(chat, LAMBDA b : b.id /= id)

UsedIds ==
  UNION {{popups[p].chat[i].id : i \in 1..Len(popups[p].chat)} : p \in DOMAIN popups}
  \cup {q.lid : q \in pending}
  \cup {popups[p].recordingMsg : p \in DOMAIN popups}

\* the identity of a newly created placeholder element
FreshId == CHOOSE i \in 1..(Cardinality(UsedIds) + 1) :
             i \notin UsedIds /\ \A j \in 1..(i - 1) : j \in UsedIds

\* an appendMessage that inserts the bubble at the top of the container
AppendBubbleFirst(chat, text, from) == << Bubble(from, text, 0) >> \o chat

\* appendMessage, lines 186-190: the bubble appended to the chat container
AppendBubble(chat, text, from) == Append(chat, Bubble(from, text, 0))

\* an appendMessage that puts the new message first (unshift for push)
StoreAppendFirst(item, text, from) ==
  Some(Stringify(<< [text |-> text, from |-> from] >> \o HistoryOf(item)))

\* appendMessage, lines 193-195: the item written back to sessionStorage
StoreAppend(item, text, from) ==
  Some(Stringify(Append(HistoryOf(item), [text |-> text, from |-> from])))

\* voiceToggle ? voiceToggle.checked : false
VoiceOn(pp) == pp.toggle = "checked"

\* messages that requests and recordings under way may still append
Reserved ==
  Cardinality({q \in pending : q.kind = "text"})
  + 2 * Cardinality({q \in pending : q.kind = "voice"})
  + 2 * Cardinality({pi \in (DOMAIN popups) \X (1..MaxRecorders) :
                       pi[2] <= popups[pi[1]].gum})
  + 2 * Cardinality({pr \in (DOMAIN popups) \X (1..MaxRecorders) :
                       pr[2] \in popups[pr[1]].stopping})
  + 2 * Cardinality({p \in DOMAIN popups :
                       /\ popups[p].mediaRecorder /= 0
                       /\ popups[p].recs[popups[p].mediaRecorder] = "recording"})

Room(n, max) == Len(HistoryOf(ssChatHistory)) + Reserved + n <= max

----------------------------------------------------------------------------
(* The page outside the popup: navigation menu, course modal, chatbot button *)

\* !expanded written by setAttribute: the boolean as a string
BoolAttr(b) == IF b THEN "true" ELSE "false"

\* a handler that opens the menu instead of toggling it
HamburgerOpens(d) == [d EXCEPT !.ariaExpanded = "true", !.navShow = TRUE]

\* part_000, lines 4-8: the click handler of .hamburger, on the page d
HamburgerToggle(d) ==
  LET expanded == d.ariaExpanded = "true"
  IN [d EXCEPT !.ariaExpanded = BoolAttr(~expanded),
               !.navShow = ~d.navShow]

\* part_001, lines 12-55: the course table (long texts shortened)
courseDetails ==
  (<<"M", "B", "A">> :>
     [description |-> "Master of Business Administration (General)",
      eligibility |-> "Bachelors (Recognized)",
      duration |-> "2 years",
      adm |-> "Apply through university entrance exam or merit-based selection.",
      fees |-> "Approx. $15,000 per year"])
  @@ (<<"B", "B", "A">> :>
     [description |-> "Bachelor of Business Administration (General)",
      eligibility |-> "+2 (Recognized)",
      duration |-> "3 years",
      adm |-> "Admission based on 10+2 marks or entrance test.",
      fees |-> "Approx. $8,000 per year"])
  @@ (<<"M", "C", "A">> :>
     [description |-> "Master of Computer Application",
      eligibility |-> "Bachelors (Recognized)",
      duration |-> "2 years",
      adm |-> "Through entrance exam and academic merit.",
      fees |-> "Approx. $12,000 per year"])
  @@ (<<"B", "C", "A">> :>
     [description |-> "Bachelor of Computer Application",
      eligibility |-> "+2 (Recognized)",
      duration |-> "3 years",
      adm |-> "Based on 10+2 academic qualification or entrance exam.",
      fees |-> "Approx. $7,000 per year"])
  @@ (<<"M", "A">> :>
     [description |-> "Master of Arts (English): ...",
      eligibility |-> "Bachelor's degree in English or related discipline. ...",
      duration |-> "2 years (4 Semesters)",
      adm |-> "Apply for CUCET (Chandigarh University Common Entrance Test). ...",
      fees |-> "Per Year Fee: ..."])
  @@ (<<"B", "A">> :>
     [description |-> "Bachelor of Arts (English)",
      eligibility |-> "Bachelors (Recognized)",
      duration |-> "3 years",
      adm |-> "Admission based on 10+2 marks or merit.",
      fees |-> "Approx. $6,000 per year"])

\* details.description || "N/A"
OrNA(text) == IF text = "" THEN "N/A" ELSE text

\* a showModal that leaves the fees field as it was
showModalKeepsFees(m, courseName) ==
  IF courseName \notin DOMAIN courseDetails THEN m
  ELSE LET details == courseDetails[courseName]
       IN [m EXCEPT !.display = "block",
                    !.title = courseName,
                    !.desc = OrNA(details.description),
                    !.elig = OrNA(details.eligibility),
                    !.duration = OrNA(details.duration),
                    !.adm = OrNA(details.adm)]

\* part_001, lines 58-70: showModal on the modal m
showModal(m, courseName) ==
  IF courseName \notin DOMAIN courseDetails THEN m
  ELSE LET details == courseDetails[courseName]
       IN [display |-> "block",
           title |-> courseName,
           desc |-> OrNA(details.description),
           elig |-> OrNA(details.eligibility),
           duration |-> OrNA(details.duration),
           adm |-> OrNA(details.adm),
           fees |-> OrNA(details.fees)]

\* a call that injects a button whether or not the page has one
ensureChatbotButtonAlways(d) ==
  [d EXCEPT !.btns = @ + 1,
            !.styles = IF @ = 0 THEN 1 ELSE @]

\* jscript2.js, lines 19-87: ensureChatbotButton on the page d
ensureChatbotButton(d) ==
  IF d.btns > 0 THEN d
  ELSE [d EXCEPT !.btns = 1,
                 !.styles = IF @ = 0 THEN 1 ELSE @]

\* the course modal as the page's markup has it: hidden by the style sheet,
\* its text fields empty
ModalParsed ==
  [display |-> "", title |-> <<>>, desc |-> "", elig |-> "", duration |-> "",
   adm |-> "", fees |-> ""]

\* the pages the scripts may be loaded into: the aria-expanded attribute and
\* the show class as the markup has them, with or without a chatbot button and
\* the inline style element; orig and the counters are history fields
DomParsed ==
  { [ariaExpanded |-> a, navShow |-> s, origAria |-> a, origShow |-> s,
     hamburgerClicks |-> 0, modal |-> ModalParsed,
     btns |-> b, origBtns |-> b, styles |-> y, ensureCalls |-> 0] :
      a \in {"absent", "true", "false"}, s \in BOOLEAN,
      b \in {0, 1}, y \in {0, 1} }

\* the page of the chatbot widget once its load handler has called
\* ensureChatbotButton, line 89
DomLoaded ==
  [ensureChatbotButton(
     [ariaExpanded |-> "false", navShow |-> FALSE, origAria |-> "false",
      origShow |-> FALSE, hamburgerClicks |-> 0, modal |-> ModalParsed,
      btns |-> 0, origBtns |-> 0, styles |-> 0, ensureCalls |-> 0])
   EXCEPT !.ensureCalls = 1]

----------------------------------------------------------------------------
(* Page load *)

\* the state the DOMContentLoaded handler leaves, lines 3-95 and 446-451
Init ==
  /\ ssChatHistory = None
  /\ ssChatbotOpen = "null"
  /\ lsVoiceNav = "null"
  /\ popupLoaded = FALSE
  /\ markupPending = 0
  /\ popups = <<>>
  /\ pending = {}
  /\ toast = NoToast
  /\ redirectLog = <<>>
  /\ audioLog = <<>>
  /\ autoTimer = FALSE
  /\ appended = <<>>
  /\ lastEvent = Ev("load", NoData)
  /\ dom = DomLoaded

\* a reload that removes both session items whatever confirm() returns
ClearedOnLoadAlways(reload, confirmed) == reload

\* a reload whose confirm() is accepted removes both session items, lines 5-11
ClearedOnLoad(reload, confirmed) == reload /\ confirmed

\* the page is left (navigation or reload) and the next page's handler runs
PageLoad(reload, confirmed) ==
  LET cleared == ClearedOnLoad(reload, confirmed)
      open == IF cleared THEN "null" ELSE ssChatbotOpen
  IN /\ ssChatHistory' = IF cleared THEN None ELSE ssChatHistory
     /\ ssChatbotOpen' = open
     /\ appended' = IF cleared THEN <<>> ELSE appended
     /\ popupLoaded' = FALSE
     /\ markupPending' = 0
     /\ popups' = <<>>
     /\ pending' = {}
     /\ toast' = NoToast
     /\ redirectLog' = <<>>
     /\ audioLog' = <<>>
     /\ autoTimer' = (open = "true")
     /\ lastEvent' = Ev(IF cleared THEN "loadCleared" ELSE "load", NoData)
     /\ UNCHANGED << lsVoiceNav, dom >>

----------------------------------------------------------------------------
(* Inputs *)

\* what the input box may hold when a query is submitted
RawInputs ==
  { <<>>, <<" ", "\t">>, <<" ", "M", "B", "A", " ">>, <<"h", "i">> }

AnswerX == <<"X">>
ErrorY == <<"Y">>
ServerRedirect == <<"/", "m", "c", "a">>
AudioFile == <<"a", ".", "m", "p", "3">>

\* the JSON bodies /ask_bot/ may answer with
TextResponses ==
  [answer : {None, Some(<<>>), Some(AnswerX)},
   error : {None, Some(<<>>), Some(ErrorY)},
   redirect : {None, Some(ServerRedirect)},
   audio_file : {None, Some(AudioFile)},
   transcript : {None}]

\* texts that exercise the keyword table: two keys out of table order and in
\* capitals, keys that contain a later key, a key inside a word, each of the
\* remaining keys, and a text without a key
KeywordTexts ==
  { <<"M", "C", "A", " ", "M", "B", "A">>,
    <<"b", "b", "a">>,
    <<"b", "c", "a">>,
    <<"d", "r", "a", "m", "a">>,
    <<"b", "a">>,
    <<"s", "c", "h", "o", "l", "a", "r", "s", "h", "i", "p">>,
    <<"c", "o", "u", "r", "s", "e", "s">>,
    <<"m", "c", "a">>,
    <<"h", "i">> }

\* bodies of /ask_bot/ that reach the redirect logic or stop before it
KeywordResponses ==
  [answer : {None, Some(AnswerX)},
   error : {None},
   redirect : {None, Some(ServerRedirect)},
   audio_file : {None},
   transcript : {None}]

\* bodies of /record_and_transcribe/ with the transcripts of KeywordTexts
KeywordVoiceResponses ==
  [answer : {Some(AnswerX)},
   error : {None},
   redirect : {None, Some(ServerRedirect)},
   audio_file : {None},
   transcript : {None} \cup {Some(t) : t \in KeywordTexts}]

\* the outcomes of fetch(POPUP_HTML): a page with the root element, a
\* non-success status, a page without #chatbotPopup, a rejected fetch
MarkupOutcomes == {"ok", "status", "noRoot", "rejected"}

\* the #voiceNavToggle checkbox of the fetched markup
MarkupToggles == {"absent", "checked", "unchecked"}

----------------------------------------------------------------------------
(* Popup life cycle *)

\* lines 174-181: the stored history replayed into the chat container
Replay(item) ==
  LET h == HistoryOf(item)
  IN [i \in 1..Len(h) |-> Bubble(h[i].from, h[i].text, 0)]

\* a popup creation that leaves the checkbox as the markup has it
SeedToggleFromMarkup(markup, saved) == markup

\* lines 158-165: the checkbox seeded from localStorage
SeedToggle(markup, saved) ==
  IF markup = "absent" THEN "absent"
  ELSE IF saved = "true" THEN "checked"
  ELSE IF saved = "false" THEN "unchecked"
  ELSE markup

\* the popup element as lines 138-431 leave it
NewPopup(markup) ==
  [display |-> "flex",
   chat |-> Replay(ssChatHistory),
   toggle |-> SeedToggle(markup, lsVoiceNav),
   mediaRecorder |-> 0, recs |-> <<>>, audioChunks |-> <<>>,
   recordingMsg |-> 0, gum |-> 0, stopping |-> {}, micRecording |-> FALSE,
   isDown |-> FALSE, offsetX |-> 0, offsetY |-> 0, left |-> 0, top |-> 0,
   cursor |-> ""]

\* a click handler that toggles a loaded popup instead of showing it
ClickHandlerToggles ==
  IF ~popupLoaded
  THEN /\ markupPending < MaxMarkupPending
       /\ markupPending' = markupPending + 1
       /\ UNCHANGED << popups, ssChatbotOpen >>
  ELSE /\ IF popups /= <<>>
          THEN /\ popups' = [popups EXCEPT ![1].display =
                               IF @ = "flex" THEN "none" ELSE "flex"]
               /\ ssChatbotOpen' = IF popups[1].display = "flex"
                                   THEN "false" ELSE "true"
          ELSE UNCHANGED << popups, ssChatbotOpen >>
       /\ UNCHANGED markupPending

\* the click handler of .chatbot-btn, lines 122-444, up to the fetch it starts
ClickHandler ==
  IF ~popupLoaded
  THEN /\ markupPending < MaxMarkupPending
       /\ markupPending' = markupPending + 1
       /\ UNCHANGED << popups, ssChatbotOpen >>
  ELSE /\ IF popups /= <<>>
          THEN /\ popups' = [popups EXCEPT ![1].display = "flex"]
               /\ ssChatbotOpen' = "true"
          ELSE UNCHANGED << popups, ssChatbotOpen >>
       /\ UNCHANGED markupPending

\* the user clicks the chatbot button
ButtonClick ==
  /\ ClickHandler
  /\ lastEvent' = Ev("buttonClick", NoData)
  /\ UNCHANGED << ssChatHistory, lsVoiceNav, popupLoaded, pending, toast,
                  redirectLog, audioLog, autoTimer, appended, dom >>

\* a timer whose callback finds no button to click
AutoReopenNoClick ==
  /\ autoTimer
  /\ autoTimer' = FALSE
  /\ lastEvent' = Ev("autoReopen", NoData)
  /\ UNCHANGED << ssChatHistory, ssChatbotOpen, lsVoiceNav, popupLoaded,
                  markupPending, popups, pending, toast, redirectLog, audioLog,
                  appended, dom >>

\* lines 446-451: the timer armed at page load clicks the button
AutoReopen ==
  /\ autoTimer
  /\ autoTimer' = FALSE
  /\ ClickHandler
  /\ lastEvent' = Ev("autoReopen", NoData)
  /\ UNCHANGED << ssChatHistory, lsVoiceNav, popupLoaded, pending, toast,
                  redirectLog, audioLog, appended, dom >>

\* lines 127-432: the fetched markup arrives and the popup is built
MarkupLoaded(markup) ==
  /\ markupPending > 0
  /\ markupPending' = markupPending - 1
  /\ popups' = Append(popups, NewPopup(markup))
  /\ popupLoaded' = TRUE
  /\ ssChatbotOpen' = "true"
  /\ lastEvent' = Ev("markupLoaded", NoData)
  /\ UNCHANGED << ssChatHistory, lsVoiceNav, pending, toast, redirectLog,
                  audioLog, autoTimer, appended, dom >>

\* a handler that marks the popup loaded before the markup is known to be good
MarkupFailedMarksLoaded(outcome) ==
  /\ outcome /= "ok"
  /\ markupPending > 0
  /\ markupPending' = markupPending - 1
  /\ toast' = ToastLoadFailed
  /\ popupLoaded' = TRUE
  /\ lastEvent' = Ev("markupFailed", NoData)
  /\ UNCHANGED << ssChatHistory, ssChatbotOpen, lsVoiceNav, popups,
                  pending, redirectLog, audioLog, autoTimer, appended, dom >>

\* lines 128, 136 and 433-436: the fetch fails and the catch shows a toast
MarkupFailed(outcome) ==
  /\ outcome /= "ok"
  /\ markupPending > 0
  /\ markupPending' = markupPending - 1
  /\ toast' = ToastLoadFailed
  /\ lastEvent' = Ev("markupFailed", NoData)
  /\ UNCHANGED << ssChatHistory, ssChatbotOpen, lsVoiceNav, popupLoaded, popups,
                  pending, redirectLog, audioLog, autoTimer, appended, dom >>

\* lines 392-403: the close control, or a click on the popup itself
ClosePopup(p) ==
  /\ p \in DOMAIN popups
  /\ popups[p].display = "flex"
  /\ popups' = [popups EXCEPT ![p].display = "none"]
  /\ ssChatbotOpen' = "false"
  /\ lastEvent' = Ev("close", NoData)
  /\ UNCHANGED << ssChatHistory, lsVoiceNav, popupLoaded, markupPending, pending,
                  toast, redirectLog, audioLog, autoTimer, appended, dom >>

\* lines 378-390: the change handler of the voice-navigation checkbox
VoiceToggleChange(p) ==
  /\ p \in DOMAIN popups
  /\ popups[p].display = "flex"
  /\ popups[p].toggle /= "absent"
  /\ LET enabled == popups[p].toggle = "unchecked"
     IN /\ popups' = [popups EXCEPT
                        ![p].toggle = IF enabled THEN "checked" ELSE "unchecked"]
        /\ lsVoiceNav' = IF enabled THEN "true" ELSE "false"
        /\ toast' = IF enabled THEN ToastVoiceOn ELSE ToastVoiceOff
  /\ lastEvent' = Ev("voiceToggle", NoData)
  /\ UNCHANGED << ssChatHistory, ssChatbotOpen, popupLoaded, markupPending,
                  pending, redirectLog, audioLog, autoTimer, appended, dom >>

\* lines 108-110: the toast's timer hides it
ToastTimeout ==
  /\ toast /= NoToast
  /\ toast' = NoToast
  /\ UNCHANGED << ssChatHistory, ssChatbotOpen, lsVoiceNav, popupLoaded,
                  markupPending, popups, pending, redirectLog, audioLog,
                  autoTimer, appended, lastEvent, dom >>

----------------------------------------------------------------------------
(* Text query *)

\* lines 199-210: sendQuery up to the request it issues, while fewer than
\* max requests are in flight
SendQueryWithin(p, raw, max) ==
  LET query == Trim(raw)
      lid == FreshId
  IN /\ p \in DOMAIN popups
     /\ popups[p].display = "flex"
     /\ lastEvent' = Ev(IF raw = <<>> THEN "sendQueryEmpty"
                         ELSE IF query = <<>> THEN "sendQueryBlank"
                         ELSE "sendQuery", NoData)
     /\ IF query = <<>>
        THEN UNCHANGED << popups, pending, ssChatHistory, appended >>
        ELSE /\ Room(2, MaxHistory)
             /\ Cardinality(pending) < max
             /\ popups' = [popups EXCEPT ![p].chat =
                  Append(AppendBubble(@, query, "user"),
                         Bubble("plain", LoadingText, lid))]
             /\ ssChatHistory' = StoreAppend(ssChatHistory, query, "user")
             /\ appended' = Append(appended, [text |-> query, from |-> "user"])
             /\ pending' = pending \cup
                  {[kind |-> "text", p |-> p, query |-> query, lid |-> lid,
                    blob |-> <<>>]}
     /\ UNCHANGED << ssChatbotOpen, lsVoiceNav, popupLoaded, markupPending, toast,
                     redirectLog, audioLog, autoTimer, dom >>

\* lines 198-216: a query is submitted
SendQuery(p, raw) == SendQueryWithin(p, raw, MaxPending)

\* a sendQuery that follows the server's redirect whatever the checkbox says
TextRedirectServerUngated(data, voiceOn, query) ==
  IF ~Truthy(data.answer) THEN None
  ELSE IF Truthy(data.redirect) THEN data.redirect
  ELSE IF voiceOn THEN KeywordTarget(ToLowerCase(query))
  ELSE None

\* a sendQuery whose redirects the voice-navigation checkbox does not gate
TextRedirectUngated(data, voiceOn, query) ==
  IF ~Truthy(data.answer) THEN None
  ELSE IF Truthy(data.redirect) THEN data.redirect
  ELSE KeywordTarget(ToLowerCase(query))

\* lines 220-251: the redirect sendQuery performs for a response, None for none
TextRedirect(data, voiceOn, query) ==
  IF ~Truthy(data.answer) THEN None
  ELSE IF Truthy(data.redirect) /\ voiceOn THEN data.redirect
  ELSE IF voiceOn THEN KeywordTarget(ToLowerCase(query))
  ELSE None

\* a reply that shows the error field without its prefix
TextReplyBarePrefix(data) ==
  IF Truthy(data.answer) THEN data.answer[1]
  ELSE IF Truthy(data.error) THEN data.error[1]
  ELSE NoAnswerText

\* lines 220-269: the text of the bot bubble for a response
TextReply(data) ==
  IF Truthy(data.answer) THEN data.answer[1]
  ELSE IF Truthy(data.error) THEN ErrorPrefix \o data.error[1]
  ELSE NoAnswerText

\* lines 252-255: the toast shown when the keyword fallback is skipped
TextToast(data, voiceOn, old) ==
  IF Truthy(data.answer) /\ ~voiceOn THEN ToastSkipped ELSE old

\* lines 257-264: the audio whose playback the response starts, None for none
TextAudio(data, voiceOn, query) ==
  IF Truthy(data.answer) /\ TextRedirect(data, voiceOn, query) = None
     /\ Truthy(data.audio_file)
  THEN Some(<<"/download_audio/">> \o data.audio_file[1])
  ELSE None

\* lines 216-269: the response of /ask_bot/ arrives and parses as JSON
QueryResponse(q, data) ==
  LET pp == popups[q.p]
      voiceOn == VoiceOn(pp)
      target == TextRedirect(data, voiceOn, q.query)
      audio == TextAudio(data, voiceOn, q.query)
      reply == TextReply(data)
  IN /\ q \in pending
     /\ q.kind = "text"
     /\ lastEvent' = Ev("queryResponse", data)
     /\ pending' = pending \ {q}
     /\ toast' = TextToast(data, voiceOn, toast)
     /\ redirectLog' = IF target /= None THEN Append(redirectLog, target[1])
                       ELSE redirectLog
     /\ audioLog' = IF audio /= None THEN Append(audioLog, audio[1]) ELSE audioLog
     /\ ssChatbotOpen' = IF target /= None THEN "true" ELSE ssChatbotOpen
     /\ appended' = Append(appended, [text |-> reply, from |-> "bot"])
     /\ popups' = [popups EXCEPT ![q.p].chat =
                     AppendBubble(RemoveBubble(@, q.lid), reply, "bot")]
     /\ ssChatHistory' = StoreAppend(ssChatHistory, reply, "bot")
     /\ UNCHANGED << lsVoiceNav, popupLoaded, markupPending, autoTimer, dom >>

\* a catch that reports the failure and leaves the request to be sent again
QueryFailedRetries(q) ==
  /\ q \in pending
  /\ q.kind = "text"
  /\ pending' = pending
  /\ popups' = [popups EXCEPT ![q.p].chat = AppendBubble(@, SendErrorText, "bot")]
  /\ ssChatHistory' = StoreAppend(ssChatHistory, SendErrorText, "bot")
  /\ appended' = Append(appended, [text |-> SendErrorText, from |-> "bot"])
  /\ lastEvent' = Ev("queryFailed", NoData)
  /\ UNCHANGED << ssChatbotOpen, lsVoiceNav, popupLoaded, markupPending, toast,
                  redirectLog, audioLog, autoTimer, dom >>

\* lines 270-274: fetch rejects or the body is not JSON
QueryFailed(q) ==
  /\ q \in pending
  /\ q.kind = "text"
  /\ pending' = pending \ {q}
  /\ popups' = [popups EXCEPT ![q.p].chat =
                  AppendBubble(RemoveBubble(@, q.lid), SendErrorText, "bot")]
  /\ ssChatHistory' = StoreAppend(ssChatHistory, SendErrorText, "bot")
  /\ appended' = Append(appended, [text |-> SendErrorText, from |-> "bot"])
  /\ lastEvent' = Ev("queryFailed", NoData)
  /\ UNCHANGED << ssChatbotOpen, lsVoiceNav, popupLoaded, markupPending, toast,
                  redirectLog, audioLog, autoTimer, dom >>

----------------------------------------------------------------------------
(* Voice query *)

TranscriptMba == <<"m", "b", "a">>
TranscriptHi == <<"h", "i">>

\* the JSON bodies /record_and_transcribe/ may answer with
VoiceResponses ==
  [answer : {None, Some(AnswerX)},
   error : {None, Some(ErrorY)},
   redirect : {None, Some(ServerRedirect)},
   audio_file : {None},
   transcript : {None, Some(TranscriptMba), Some(TranscriptHi)}]

RECURSIVE AppendBubbles(_, _)
\* appendMessage called for each of msgs in turn: the chat container
AppendBubbles(chat, msgs) ==
  IF msgs = <<>> THEN chat
  ELSE AppendBubbles(AppendBubble(chat, Head(msgs).text, Head(msgs).from), Tail(msgs))

RECURSIVE StoreAppends(_, _)
\* appendMessage called for each of msgs in turn: the chatHistory item
StoreAppends(item, msgs) ==
  IF msgs = <<>> THEN item
  ELSE StoreAppends(StoreAppend(item, Head(msgs).text, Head(msgs).from), Tail(msgs))

\* lines 287-290 and 365-367: the microphone button is clicked; a recording is
\* started while the history keeps room, within max messages, for what the
\* recordings under way may append
MicClickWithin(p, max) ==
  LET pp == popups[p]
  IN /\ p \in DOMAIN popups
     /\ pp.display = "flex"
     /\ IF pp.mediaRecorder = 0 \/ pp.recs[pp.mediaRecorder] = "inactive"
        THEN /\ Len(pp.recs) + pp.gum < MaxRecorders
             /\ Room(2, max)
             /\ popups' = [popups EXCEPT ![p].gum = @ + 1]
             /\ lastEvent' = Ev("micClickStart", NoData)
        ELSE /\ Cardinality(pending) + Cardinality(pp.stopping) < MaxPending
             /\ popups' = [popups EXCEPT
                  ![p].recs = [@ EXCEPT ![pp.mediaRecorder] = "inactive"],
                  ![p].stopping = @ \cup {pp.mediaRecorder},
                  ![p].micRecording = FALSE]
             /\ lastEvent' = Ev("micClickStop", NoData)
     /\ UNCHANGED << ssChatHistory, ssChatbotOpen, lsVoiceNav, popupLoaded,
                     markupPending, pending, toast, redirectLog, audioLog,
                     autoTimer, appended, dom >>

\* lines 287-368: the microphone button is clicked
MicClick(p) == MicClickWithin(p, MaxVoiceHistory)

\* a start that keeps the chunks of the recording before (no audioChunks = [])
StartRecordingKeepsChunks(pp, id) ==
  [pp EXCEPT !.gum = @ - 1,
             !.recs = Append(@, "recording"),
             !.mediaRecorder = Len(pp.recs) + 1,
             !.recordingMsg = id,
             !.chat = Append(@, Bubble("plain", SpeakNowText, id)),
             !.micRecording = TRUE]

\* lines 291-299 and 363-364: the popup once a new recorder records
StartRecording(pp, id) ==
  [pp EXCEPT !.gum = @ - 1,
             !.recs = Append(@, "recording"),
             !.mediaRecorder = Len(pp.recs) + 1,
             !.audioChunks = <<>>,
             !.recordingMsg = id,
             !.chat = Append(@, Bubble("plain", SpeakNowText, id)),
             !.micRecording = TRUE]

\* lines 290-364: getUserMedia resolves and the recording starts
GumGranted(p) ==
  /\ p \in DOMAIN popups
  /\ popups[p].gum > 0
  /\ popups' = [popups EXCEPT ![p] = StartRecording(@, FreshId)]
  /\ lastEvent' = Ev("gumGranted", NoData)
  /\ UNCHANGED << ssChatHistory, ssChatbotOpen, lsVoiceNav, popupLoaded,
                  markupPending, pending, toast, redirectLog, audioLog,
                  autoTimer, appended, dom >>

\* a handler without the try/catch: the rejection of getUserMedia is not reported
GumDeniedUncaught(p) ==
  /\ p \in DOMAIN popups
  /\ popups[p].gum > 0
  /\ popups' = [popups EXCEPT ![p].gum = @ - 1]
  /\ lastEvent' = Ev("gumDenied", NoData)
  /\ UNCHANGED << ssChatHistory, ssChatbotOpen, lsVoiceNav, popupLoaded,
                  markupPending, pending, toast, redirectLog, audioLog,
                  autoTimer, appended, dom >>

\* lines 369-373: getUserMedia rejects and the catch reports it
GumDenied(p) ==
  LET pp == popups[p]
  IN /\ p \in DOMAIN popups
     /\ pp.gum > 0
     /\ popups' = [popups EXCEPT ![p] =
          [@ EXCEPT !.gum = @ - 1,
                    !.chat = AppendBubble(@, MicAccessFailedText, "bot")]]
     /\ ssChatHistory' = StoreAppend(ssChatHistory, MicAccessFailedText, "bot")
     /\ appended' = Append(appended, [text |-> MicAccessFailedText, from |-> "bot"])
     /\ toast' = ToastMicDenied
     /\ lastEvent' = Ev("gumDenied", NoData)
     /\ UNCHANGED << ssChatbotOpen, lsVoiceNav, popupLoaded, markupPending,
                     pending, redirectLog, audioLog, autoTimer, dom >>

\* lines 301-316: the stopped recorder r delivers its data and fires onstop,
\* which uploads the chunks gathered in audioChunks as one blob
RecorderStopped(p, r) ==
  LET pp == popups[p]
      chunks == Append(pp.audioChunks, r)
      lid == FreshId
  IN /\ p \in DOMAIN popups
     /\ r \in pp.stopping
     /\ popups' = [popups EXCEPT ![p] =
          [@ EXCEPT !.stopping = @ \ {r},
                    !.audioChunks = chunks,
                    !.chat = Append(IF pp.recordingMsg /= 0
                                    THEN RemoveBubble(@, pp.recordingMsg) ELSE @,
                                    Bubble("plain", ProcessingText, lid))]]
     /\ pending' = pending \cup
          {[kind |-> "voice", p |-> p, query |-> <<>>, lid |-> lid, blob |-> chunks]}
     /\ lastEvent' = Ev("recorderStopped", NoData)
     /\ UNCHANGED << ssChatHistory, ssChatbotOpen, lsVoiceNav, popupLoaded,
                     markupPending, toast, redirectLog, audioLog, autoTimer,
                     appended, dom >>

\* lines 320-322: the messages onstop appends for a response
VoiceMessages(data) ==
  (IF Truthy(data.transcript)
   THEN << [text |-> data.transcript[1], from |-> "user"] >> ELSE <<>>)
  \o (IF Truthy(data.answer) THEN << [text |-> data.answer[1], from |-> "bot"] >>
      ELSE IF Truthy(data.error)
      THEN << [text |-> MicErrorPrefix \o data.error[1], from |-> "bot"] >>
      ELSE <<>>)

\* an onstop that consults the keyword table before the server's redirect
VoiceRedirectKeywordFirst(data, voiceOn) ==
  IF voiceOn /\ Truthy(data.transcript)
     /\ KeywordTarget(ToLowerCase(data.transcript[1])) /= None
  THEN KeywordTarget(ToLowerCase(data.transcript[1]))
  ELSE IF Truthy(data.redirect) /\ voiceOn THEN data.redirect
  ELSE None

\* lines 324-350: the redirect onstop performs for a response, None for none
VoiceRedirect(data, voiceOn) ==
  IF Truthy(data.redirect) /\ voiceOn THEN data.redirect
  ELSE IF voiceOn /\ Truthy(data.transcript)
  THEN KeywordTarget(ToLowerCase(data.transcript[1]))
  ELSE None

\* lines 325-354: the toast of the else branch of the keyword fallback
VoiceToast(data, voiceOn, old) ==
  IF Truthy(data.redirect) /\ voiceOn THEN old
  ELSE IF voiceOn /\ Truthy(data.transcript) THEN old
  ELSE ToastSkipped

\* lines 316-354: the response of /record_and_transcribe/ arrives and parses
VoiceResponse(q, data) ==
  LET pp == popups[q.p]
      voiceOn == VoiceOn(pp)
      target == VoiceRedirect(data, voiceOn)
      msgs == VoiceMessages(data)
  IN /\ q \in pending
     /\ q.kind = "voice"
     /\ pending' = pending \ {q}
     /\ popups' = [popups EXCEPT ![q.p].chat =
                     AppendBubbles(RemoveBubble(@, q.lid), msgs)]
     /\ ssChatHistory' = StoreAppends(ssChatHistory, msgs)
     /\ appended' = appended \o msgs
     /\ ssChatbotOpen' = IF target /= None THEN "true" ELSE ssChatbotOpen
     /\ redirectLog' = IF target /= None THEN Append(redirectLog, target[1])
                       ELSE redirectLog
     /\ toast' = VoiceToast(data, voiceOn, toast)
     /\ lastEvent' = Ev("voiceResponse", data)
     /\ UNCHANGED << lsVoiceNav, popupLoaded, markupPending, audioLog, autoTimer, dom >>

\* lines 356-360: the upload rejects or its body is not JSON
VoiceFailed(q) ==
  /\ q \in pending
  /\ q.kind = "voice"
  /\ pending' = pending \ {q}
  /\ popups' = [popups EXCEPT ![q.p].chat =
                  AppendBubble(RemoveBubble(@, q.lid), MicSendFailedText, "bot")]
  /\ ssChatHistory' = StoreAppend(ssChatHistory, MicSendFailedText, "bot")
  /\ appended' = Append(appended, [text |-> MicSendFailedText, from |-> "bot"])
  /\ lastEvent' = Ev("voiceFailed", NoData)
  /\ UNCHANGED << ssChatbotOpen, lsVoiceNav, popupLoaded, markupPending, toast,
                  redirectLog, audioLog, autoTimer, dom >>

----------------------------------------------------------------------------
(* Dragging the popup: makePopupDraggable on .popup-content, lines 405-425 *)

\* the pointer coordinates an event may report
Coords == 0..MaxCoord

\* the state every drag handler leaves alone
dragFrame ==
  << ssChatHistory, ssChatbotOpen, lsVoiceNav, popupLoaded, markupPending,
     pending, toast, redirectLog, audioLog, autoTimer, appended, dom >>

\* lines 411-416: the pointer is pressed on the content of the displayed popup
MouseDown(p, x, y) ==
  /\ p \in DOMAIN popups
  /\ popups[p].display = "flex"
  /\ popups' = [popups EXCEPT ![p] =
       [@ EXCEPT !.isDown = TRUE,
                 !.offsetX = x - popups[p].left,
                 !.offsetY = y - popups[p].top,
                 !.cursor = "move"]]
  /\ lastEvent' = Ev("mouseDown", NoData)
  /\ UNCHANGED dragFrame

\* line 417: the pointer is released anywhere in the document; the
\* listener of every popup built on this page runs
MouseUp ==
  /\ popups' = [i \in DOMAIN popups |->
       [popups[i] EXCEPT !.isDown = FALSE, !.cursor = "default"]]
  /\ lastEvent' = Ev("mouseUp", NoData)
  /\ UNCHANGED dragFrame

\* where the mousemove listener of a popup puts it for a pointer at x, y
Moved(pp, x, y) == [pp EXCEPT !.left = x - pp.offsetX, !.top = y - pp.offsetY]

\* the popup stays within the offsets the model follows
InView(pp) == pp.left \in Coords /\ pp.top \in Coords

\* a mousemove listener without the isDown test
MouseMoveAlways(x, y) ==
  /\ \A i \in DOMAIN popups : InView(Moved(popups[i], x, y))
  /\ popups' = [i \in DOMAIN popups |-> Moved(popups[i], x, y)]
  /\ lastEvent' = Ev("mouseMove", NoData)
  /\ UNCHANGED dragFrame

\* lines 418-422: the pointer moves anywhere in the document
MouseMove(x, y) ==
  /\ \A i \in DOMAIN popups : popups[i].isDown => InView(Moved(popups[i], x, y))
  /\ popups' = [i \in DOMAIN popups |->
       IF popups[i].isDown THEN Moved(popups[i], x, y) ELSE popups[i]]
  /\ lastEvent' = Ev("mouseMove", NoData)
  /\ UNCHANGED dragFrame

----------------------------------------------------------------------------
(* Handlers of the page outside the popup *)

\* the state of the chatbot widget, which these handlers leave alone
widgetVars == << ssChatHistory, ssChatbotOpen, lsVoiceNav, popupLoaded,
                 markupPending, popups, pending, toast, redirectLog, audioLog,
                 autoTimer, appended >>

\* a page whose scripts have not run yet
InitSite ==
  /\ ssChatHistory = None
  /\ ssChatbotOpen = "null"
  /\ lsVoiceNav = "null"
  /\ popupLoaded = FALSE
  /\ markupPending = 0
  /\ popups = <<>>
  /\ pending = {}
  /\ toast = NoToast
  /\ redirectLog = <<>>
  /\ audioLog = <<>>
  /\ autoTimer = FALSE
  /\ appended = <<>>
  /\ lastEvent = Ev("parsed", NoData)
  /\ dom \in DomParsed

\* part_000, lines 4-8: a click on the navigation control
HamburgerClick ==
  /\ dom.hamburgerClicks < MaxClicks
  /\ dom' = [HamburgerToggle(dom) EXCEPT !.hamburgerClicks = @ + 1]
  /\ lastEvent' = Ev("hamburger", NoData)
  /\ UNCHANGED widgetVars

\* the visible titles the course tiles may carry
TileTitles ==
  { <<"M", "B", "A">>, <<" ", "B", "B", "A", "\t">>, <<"M", "C", "A">>,
    <<"B", "C", "A">>, <<"M", "A">>, <<"B", "A">>, <<"P", "h", "D">>,
    <<"m", "b", "a">> }

\* part_001, lines 73-79: a click on the "Know More" button of a tile
TileClick(title) ==
  /\ dom' = [dom EXCEPT !.modal = showModal(@, Trim(title))]
  /\ lastEvent' = Ev("tileClick", NoData)
  /\ UNCHANGED widgetVars

\* part_001, lines 82-84: a click on the modal's close icon
ModalCloseClick ==
  /\ dom' = [dom EXCEPT !.modal.display = "none"]
  /\ lastEvent' = Ev("modalClose", NoData)
  /\ UNCHANGED widgetVars

\* where a click on the window may land
ClickTargets == {"modal", "content", "page"}

\* a window click handler that hides the modal wherever the click lands
WindowClickAnywhere(target) ==
  /\ dom' = [dom EXCEPT !.modal.display = "none"]
  /\ lastEvent' = Ev("windowClick", NoData)
  /\ UNCHANGED widgetVars

\* part_001, lines 87-91: a click anywhere in the window
WindowClick(target) ==
  /\ dom' = IF target = "modal" THEN [dom EXCEPT !.modal.display = "none"] ELSE dom
  /\ lastEvent' = Ev("windowClick", NoData)
  /\ UNCHANGED widgetVars

\* the keys a keydown may report
Keys == {"Escape", "Enter"}

\* part_001, lines 94-98: a key is pressed
KeyDown(key) ==
  /\ dom' = IF key = "Escape" /\ dom.modal.display = "block"
            THEN [dom EXCEPT !.modal.display = "none"] ELSE dom
  /\ lastEvent' = Ev("keyDown", NoData)
  /\ UNCHANGED widgetVars

\* jscript2.js, line 89: ensureChatbotButton is called
EnsureCall ==
  /\ dom.ensureCalls < MaxCalls
  /\ dom' = [ensureChatbotButton(dom) EXCEPT !.ensureCalls = @ + 1]
  /\ lastEvent' = Ev("ensure", NoData)
  /\ UNCHANGED widgetVars

----------------------------------------------------------------------------
(* Specifications *)

\* the popup's life cycle, with clicks while a markup fetch is in flight
NextPopup ==
  \/ \E reload \in BOOLEAN, confirmed \in BOOLEAN : PageLoad(reload, confirmed)
  \/ ButtonClick
  \/ AutoReopen
  \/ \E markup \in MarkupToggles : MarkupLoaded(markup)
  \/ \E outcome \in MarkupOutcomes : MarkupFailed(outcome)
  \/ \E p \in DOMAIN popups : ClosePopup(p)
  \/ \E p \in DOMAIN popups : VoiceToggleChange(p)
  \/ ToastTimeout

SpecPopup == Init /\ [][NextPopup]_vars

\* the text-query cycle; the button is clicked while no markup fetch is in
\* flight, so a page holds one popup
NextText ==
  \/ \E reload \in BOOLEAN, confirmed \in BOOLEAN : PageLoad(reload, confirmed)
  \/ markupPending = 0 /\ ButtonClick
  \/ markupPending = 0 /\ AutoReopen
  \/ \E markup \in MarkupToggles : MarkupLoaded(markup)
  \/ \E outcome \in MarkupOutcomes : MarkupFailed(outcome)
  \/ \E p \in DOMAIN popups : ClosePopup(p)
  \/ \E p \in DOMAIN popups : VoiceToggleChange(p)
  \/ ToastTimeout
  \/ \E p \in DOMAIN popups, raw \in RawInputs : SendQuery(p, raw)
  \/ \E q \in pending, data \in TextResponses : QueryResponse(q, data)
  \/ \E q \in pending : QueryFailed(q)

SpecText == Init /\ [][NextText]_vars

\* the voice-query cycle, under the same restriction on the button
NextMic ==
  \/ \E reload \in BOOLEAN, confirmed \in BOOLEAN : PageLoad(reload, confirmed)
  \/ markupPending = 0 /\ ButtonClick
  \/ markupPending = 0 /\ AutoReopen
  \/ \E markup \in MarkupToggles : MarkupLoaded(markup)
  \/ \E p \in DOMAIN popups : ClosePopup(p)
  \/ \E p \in DOMAIN popups : VoiceToggleChange(p)
  \/ ToastTimeout
  \/ \E p \in DOMAIN popups : MicClick(p)
  \/ \E p \in DOMAIN popups : GumGranted(p)
  \/ \E p \in DOMAIN popups : GumDenied(p)
  \/ \E p \in DOMAIN popups, r \in 1..MaxRecorders : RecorderStopped(p, r)
  \/ \E q \in pending, data \in VoiceResponses : VoiceResponse(q, data)
  \/ \E q \in pending : VoiceFailed(q)

SpecMic == Init /\ [][NextMic]_vars

\* the text and the voice cycle together, for the behaviour the two share;
\* a page takes queries while the history has room for one exchange
NextWidget ==
  \/ \E reload \in BOOLEAN, confirmed \in BOOLEAN : PageLoad(reload, confirmed)
  \/ markupPending = 0 /\ ButtonClick
  \/ markupPending = 0 /\ AutoReopen
  \/ \E markup \in MarkupToggles : MarkupLoaded(markup)
  \/ \E outcome \in MarkupOutcomes : MarkupFailed(outcome)
  \/ \E p \in DOMAIN popups : ClosePopup(p)
  \/ \E p \in DOMAIN popups : VoiceToggleChange(p)
  \/ ToastTimeout
  \/ \E p \in DOMAIN popups, raw \in RawInputs :
       Room(2, MaxVoiceHistory) /\ SendQuery(p, raw)
  \/ \E q \in pending, data \in TextResponses : QueryResponse(q, data)
  \/ \E q \in pending : QueryFailed(q)
  \/ \E p \in DOMAIN popups : MicClick(p)
  \/ \E p \in DOMAIN popups : GumGranted(p)
  \/ \E p \in DOMAIN popups : GumDenied(p)
  \/ \E p \in DOMAIN popups, r \in 1..MaxRecorders : RecorderStopped(p, r)
  \/ \E q \in pending, data \in VoiceResponses : VoiceResponse(q, data)
  \/ \E q \in pending : VoiceFailed(q)

SpecWidget == Init /\ [][NextWidget]_vars

\* the reopening after a page load: the page stays, and the user leaves the
\* button alone, until the timer has fired and the fetch it started has settled
NextReopen ==
  \/ \E reload \in BOOLEAN, confirmed \in BOOLEAN :
       ~autoTimer /\ markupPending = 0 /\ PageLoad(reload, confirmed)
  \/ ~autoTimer /\ markupPending = 0 /\ ButtonClick
  \/ AutoReopen
  \/ \E markup \in MarkupToggles : MarkupLoaded(markup)
  \/ \E outcome \in MarkupOutcomes : MarkupFailed(outcome)
  \/ \E p \in DOMAIN popups : ClosePopup(p)
  \/ \E p \in DOMAIN popups : VoiceToggleChange(p)
  \/ ToastTimeout
  \/ \E p \in DOMAIN popups, raw \in RawInputs :
       Room(2, MaxVoiceHistory) /\ SendQuery(p, raw)
  \/ \E q \in pending, data \in TextResponses : QueryResponse(q, data)
  \/ \E q \in pending : QueryFailed(q)

\* a timer that is armed fires, and a fetch that was started settles
SpecReopen ==
  /\ Init
  /\ [][NextReopen]_vars
  /\ WF_vars(AutoReopen)
  /\ WF_vars(\/ \E markup \in MarkupToggles : MarkupLoaded(markup)
             \/ \E outcome \in MarkupOutcomes : MarkupFailed(outcome))

\* the scripts of the page outside the popup
NextSite ==
  \/ HamburgerClick
  \/ \E title \in TileTitles : TileClick(title)
  \/ ModalCloseClick
  \/ \E target \in ClickTargets : WindowClick(target)
  \/ \E key \in Keys : KeyDown(key)
  \/ EnsureCall

SpecSite == InitSite /\ [][NextSite]_vars

\* text queries together with overlapping clicks on the button: a page may
\* hold several popups, each with its own input box
NextRace ==
  \/ \E reload \in BOOLEAN, confirmed \in BOOLEAN : PageLoad(reload, confirmed)
  \/ ButtonClick
  \/ AutoReopen
  \/ \E markup \in MarkupToggles : MarkupLoaded(markup)
  \/ \E outcome \in MarkupOutcomes : MarkupFailed(outcome)
  \/ \E p \in DOMAIN popups : ClosePopup(p)
  \/ \E p \in DOMAIN popups : VoiceToggleChange(p)
  \/ ToastTimeout
  \/ \E p \in DOMAIN popups, raw \in RawInputs :
       Room(2, MaxVoiceHistory) /\ SendQuery(p, raw)
  \/ \E q \in pending, data \in TextResponses : QueryResponse(q, data)
  \/ \E q \in pending : QueryFailed(q)

SpecRace == Init /\ [][NextRace]_vars

\* overlapping text queries: a query is submitted while another is pending
NextOverlap ==
  \/ \E reload \in BOOLEAN, confirmed \in BOOLEAN : PageLoad(reload, confirmed)
  \/ markupPending = 0 /\ ButtonClick
  \/ markupPending = 0 /\ AutoReopen
  \/ \E markup \in MarkupToggles : MarkupLoaded(markup)
  \/ \E p \in DOMAIN popups : ClosePopup(p)
  \/ \E p \in DOMAIN popups, raw \in RawInputs : SendQueryWithin(p, raw, MaxOverlap)
  \/ \E q \in pending, data \in TextResponses : QueryResponse(q, data)
  \/ \E q \in pending : QueryFailed(q)

SpecOverlap == Init /\ [][NextOverlap]_vars

\* the keyword fallback of both query paths: an open popup takes typed and
\* spoken queries whose texts exercise the keyword table
NextKeyword ==
  \/ \E reload \in BOOLEAN, confirmed \in BOOLEAN : PageLoad(reload, confirmed)
  \/ markupPending = 0 /\ ButtonClick
  \/ markupPending = 0 /\ AutoReopen
  \/ \E markup \in MarkupToggles : MarkupLoaded(markup)
  \/ \E p \in DOMAIN popups, raw \in KeywordTexts :
       Room(2, MaxVoiceHistory) /\ SendQuery(p, raw)
  \/ \E q \in pending, data \in KeywordResponses : QueryResponse(q, data)
  \/ \E p \in DOMAIN popups : MicClick(p)
  \/ \E p \in DOMAIN popups : GumGranted(p)
  \/ \E p \in DOMAIN popups, r \in 1..MaxRecorders : RecorderStopped(p, r)
  \/ \E q \in pending, data \in KeywordVoiceResponses : VoiceResponse(q, data)

SpecKeyword == Init /\ [][NextKeyword]_vars

\* the voice-query cycle with overlapping clicks on the microphone: the button
\* is clicked again while access to the microphone is still being requested
NextMicRace ==
  \/ \E reload \in BOOLEAN, confirmed \in BOOLEAN : PageLoad(reload, confirmed)
  \/ markupPending = 0 /\ ButtonClick
  \/ markupPending = 0 /\ AutoReopen
  \/ \E markup \in MarkupToggles : MarkupLoaded(markup)
  \/ \E p \in DOMAIN popups : ClosePopup(p)
  \/ \E p \in DOMAIN popups : MicClickWithin(p, MaxHistory)
  \/ \E p \in DOMAIN popups : GumGranted(p)
  \/ \E p \in DOMAIN popups : GumDenied(p)
  \/ \E p \in DOMAIN popups, r \in 1..MaxRecorders : RecorderStopped(p, r)
  \/ \E q \in pending, data \in VoiceResponses : VoiceResponse(q, data)
  \/ \E q \in pending : VoiceFailed(q)

SpecMicRace == Init /\ [][NextMicRace]_vars

\* the popup is opened, closed, used for text queries and dragged
NextDrag ==
  \/ \E reload \in BOOLEAN, confirmed \in BOOLEAN : PageLoad(reload, confirmed)
  \/ markupPending = 0 /\ ButtonClick
  \/ markupPending = 0 /\ AutoReopen
  \/ \E markup \in MarkupToggles : MarkupLoaded(markup)
  \/ \E p \in DOMAIN popups : ClosePopup(p)
  \/ \E p \in DOMAIN popups, raw \in RawInputs :
       Room(2, MaxVoiceHistory) /\ SendQuery(p, raw)
  \/ \E q \in pending, data \in TextResponses : QueryResponse(q, data)
  \/ \E p \in DOMAIN popups, x \in Coords, y \in Coords : MouseDown(p, x, y)
  \/ MouseUp
  \/ \E x \in Coords, y \in Coords : MouseMove(x, y)

SpecDrag == Init /\ [][NextDrag]_vars

----------------------------------------------------------------------------
(* Claims about the text-query cycle, checked under SpecText *)

\* the chat-message bubbles that show the messages h, in order
BubblesOf(h) == [i \in 1..Len(h) |-> Bubble(h[i].from, h[i].text, 0)]

\* C1: History round trip.  When a popup is created, its chat container holds
\* exactly the messages appendMessage was called with since the history was
\* last cleared, as chat bubbles in the order of the calls, each with the
\* sender and the text of its call, and the stored chatHistory parses back to
\* those calls.
C1_HistoryRoundTrip ==
  lastEvent.op = "markupLoaded" =>
    /\ popups[Len(popups)].chat = BubblesOf(appended)
    /\ HistoryOf(ssChatHistory) = appended

\* a popup created from a stored history of three or more messages of both senders
C1_Witness ==
  /\ lastEvent.op = "markupLoaded"
  /\ Len(appended) >= 3
  /\ \E i, j \in 1..Len(appended) :
       appended[i].from = "user" /\ appended[j].from = "bot"
  /\ Len(popups[Len(popups)].chat) = Len(appended)

\* the input is empty or holds white space only
IsBlank(raw) == \A i \in 1..Len(raw) : raw[i] \in WhiteSpace

\* C2: Submitting a text query whose input is empty or whitespace-only appends
\* no chat bubble, shows no loading placeholder, leaves the stored chatHistory
\* unchanged and issues no network request.
C2_BlankQueryNoEffect ==
  [][\A p \in DOMAIN popups, raw \in RawInputs :
       (IsBlank(raw) /\ SendQuery(p, raw)) =>
         UNCHANGED << popups, ssChatHistory, pending >>]_vars

\* a whitespace-only input was submitted to a popup that shows a conversation
C2_Witness ==
  /\ lastEvent.op = "sendQueryBlank"
  /\ popups /= <<>>
  /\ Len(popups[1].chat) >= 2

\* the field is present in the response, whatever its value
Carries(m) == m /= None

\* the field is present and its string is not empty
CarriesText(m) == m /= None /\ Len(m[1]) > 0

\* the response handler appended exactly one bot bubble with this text to the
\* popup of the query, and stored it
OneBotBubble(q, text) ==
  /\ Messages(popups'[q.p].chat) =
       Append(Messages(popups[q.p].chat), [text |-> text, from |-> "bot"])
  /\ HistoryOf(ssChatHistory') =
       Append(HistoryOf(ssChatHistory), [text |-> text, from |-> "bot"])

\* C3 as stated: a response that carries answer X and no error gives one bot
\* bubble X; one that carries only error Y gives one bot bubble "Error: " Y;
\* one that carries neither gives one bot bubble "No answer received."
C3_ReplyAsStated ==
  [][\A q \in pending, data \in {lastEvent'.data} :
       QueryResponse(q, data) =>
         /\ (Carries(data.answer) /\ ~Carries(data.error))
              => OneBotBubble(q, data.answer[1])
         /\ (~Carries(data.answer) /\ Carries(data.error))
              => OneBotBubble(q, <<"Error: ">> \o data.error[1])
         /\ (~Carries(data.answer) /\ ~Carries(data.error))
              => OneBotBubble(q, <<"No answer received.">>)]_vars

\* C3, amended: a response with a non-empty answer X and no non-empty error
\* gives exactly one new bot bubble X; one with a non-empty error Y and no
\* non-empty answer gives exactly one bot bubble "Error: " Y; one with neither
\* a non-empty answer nor a non-empty error gives exactly one bot bubble
\* "No answer received."  An empty string counts as an absent field.
C3_Reply ==
  [][\A q \in pending, data \in {lastEvent'.data} :
       QueryResponse(q, data) =>
         /\ (CarriesText(data.answer) /\ ~CarriesText(data.error))
              => OneBotBubble(q, data.answer[1])
         /\ (~CarriesText(data.answer) /\ CarriesText(data.error))
              => OneBotBubble(q, <<"Error: ">> \o data.error[1])
         /\ (~CarriesText(data.answer) /\ ~CarriesText(data.error))
              => OneBotBubble(q, <<"No answer received.">>)]_vars

\* a response with only an error was handled: the last bubble is the prefixed error
C3_Witness ==
  /\ lastEvent.op = "queryResponse"
  /\ popups /= <<>>
  /\ popups[1].chat /= <<>>
  /\ popups[1].chat[Len(popups[1].chat)] = Bubble("bot", <<"Error: ">> \o ErrorY, 0)


\* the text, lower-cased, contains the keyword "mba", the table's first key
ContainsMba(query) ==
  \E i \in 1..(Len(query) - 2) :
    ToLowerCase(SubSeq(query, i, i + 2)) = <<"m", "b", "a">>

\* the response handler assigned window.location.href exactly once, to this path
RedirectedOnceTo(path) == redirectLog' = Append(redirectLog, path)

\* the response handler did not assign window.location.href
NoRedirect == redirectLog' = redirectLog

\* C4 as stated: for a query whose text contains a keyword of the table, with
\* voice-navigation disabled the response produces no redirect, and with it
\* enabled the response redirects to the mapped path exactly once.
C4_KeywordRedirectAsStated ==
  [][\A q \in pending, data \in {lastEvent'.data} :
       (QueryResponse(q, data) /\ ContainsMba(q.query)) =>
         IF popups[q.p].toggle = "checked"
         THEN RedirectedOnceTo(<<"/", "m", "b", "a">>)
         ELSE NoRedirect]_vars

\* C4, amended: for a query whose text contains a keyword of the table, with
\* voice-navigation disabled when the response is handled the response
\* produces no redirect; with it enabled, the response redirects to the mapped
\* path exactly once if it carries a non-empty answer and names no redirect
\* target, and produces no redirect if it carries no non-empty answer.
C4_KeywordRedirect ==
  [][\A q \in pending, data \in {lastEvent'.data} :
       (QueryResponse(q, data) /\ ContainsMba(q.query)) =>
         /\ popups[q.p].toggle /= "checked" => NoRedirect
         /\ (popups[q.p].toggle = "checked" /\ CarriesText(data.answer)
             /\ ~CarriesText(data.redirect))
              => RedirectedOnceTo(<<"/", "m", "b", "a">>)
         /\ (popups[q.p].toggle = "checked" /\ ~CarriesText(data.answer))
              => NoRedirect]_vars

\* with voice navigation enabled, the answer to a query naming "mba" redirected
\* to /mba, once
C4_Witness ==
  /\ lastEvent.op = "queryResponse"
  /\ lastEvent.data.redirect = None
  /\ popups /= <<>>
  /\ popups[1].toggle = "checked"
  /\ redirectLog = << <<"/", "m", "b", "a">> >>
  /\ ssChatbotOpen = "true"

\* C7: When the text-query request fails at the network level (fetch rejects
\* or the body is not JSON), the loading placeholder of that query is removed
\* and exactly one bot bubble with the fixed error text is appended; no
\* redirect and no audio playback happen.
C7_QueryFailure ==
  [][\A q \in pending :
       QueryFailed(q) =>
         /\ \A i \in 1..Len(popups'[q.p].chat) : popups'[q.p].chat[i].id /= q.lid
         /\ OneBotBubble(q, <<"Error sending query (see console)">>)
         /\ Len(popups'[q.p].chat) = Len(popups[q.p].chat)
         /\ redirectLog' = redirectLog
         /\ audioLog' = audioLog]_vars

\* a failed request was handled: its error bubble is last and no placeholder is left
C7_Witness ==
  /\ lastEvent.op = "queryFailed"
  /\ popups /= <<>>
  /\ Len(popups[1].chat) >= 2
  /\ popups[1].chat[Len(popups[1].chat)].text = SendErrorText
  /\ \A i \in 1..Len(popups[1].chat) : popups[1].chat[i].cls /= "plain"

----------------------------------------------------------------------------
(* Claims about the popup's life cycle, checked under SpecPopup *)

\* the state of the popup: of the element document.getElementById finds
PopupState ==
  IF popups = <<>> THEN "unloaded"
  ELSE IF popups[1].display = "flex" THEN "loaded-visible"
  ELSE IF popups[1].display = "none" THEN "loaded-hidden"
  ELSE "other"

\* the page is left: the next page starts with no popup
IsPageLoad == \E reload \in BOOLEAN, confirmed \in BOOLEAN : PageLoad(reload, confirmed)

\* C5: The popup is always in one of the states unloaded, loaded-hidden,
\* loaded-visible; popupLoaded is set exactly when it is not unloaded; and
\* within a page the only transitions are unloaded to loaded-visible when the
\* markup fetch of a button click succeeds, loaded-hidden to loaded-visible on
\* a button click, and loaded-visible to loaded-hidden on a close action.  So a
\* loaded popup never returns to unloaded within the page and a button click
\* on a loaded-visible popup leaves it visible.
C5_PopupStateMachine ==
  /\ [](PopupState \in {"unloaded", "loaded-hidden", "loaded-visible"})
  /\ [](popupLoaded <=> PopupState /= "unloaded")
  /\ [][(PopupState' /= PopupState /\ ~IsPageLoad) =>
          \/ /\ PopupState = "unloaded" /\ PopupState' = "loaded-visible"
             /\ \E markup \in MarkupToggles : MarkupLoaded(markup)
          \/ /\ PopupState = "loaded-hidden" /\ PopupState' = "loaded-visible"
             /\ ButtonClick \/ AutoReopen
          \/ /\ PopupState = "loaded-visible" /\ PopupState' = "loaded-hidden"
             /\ ClosePopup(1)]_vars
  /\ [][(PopupState = "loaded-visible" /\ (ButtonClick \/ AutoReopen))
          => PopupState' = "loaded-visible"]_vars

\* a button click on a loaded popup: it is visible, the open flag reads "true"
\* and no fetch was started
C5_Witness ==
  /\ lastEvent.op = "buttonClick"
  /\ popupLoaded
  /\ PopupState = "loaded-visible"
  /\ markupPending = 0
  /\ ssChatbotOpen = "true"

\* C6: If the popup markup fetch fails (non-success status, or no
\* #chatbotPopup in the fetched HTML, or a rejected fetch), that fetch attaches
\* no popup element, leaves popupLoaded, the stored open flag and the chat
\* history unchanged, and, while no popup is loaded, a later button click
\* starts the fetch again.
C6_MarkupFailure ==
  /\ [][\A outcome \in MarkupOutcomes :
          MarkupFailed(outcome) =>
            UNCHANGED << popups, popupLoaded, ssChatbotOpen, ssChatHistory >>]_vars
  /\ [][((ButtonClick \/ AutoReopen) /\ PopupState = "unloaded")
          => (markupPending' = markupPending + 1 /\ PopupState' = "unloaded")]_vars

\* after a failed fetch, shown by its toast, the button was clicked and the
\* fetch is in flight again
C6_Witness ==
  /\ lastEvent.op = "buttonClick"
  /\ toast = ToastLoadFailed
  /\ popups = <<>>
  /\ ~popupLoaded
  /\ markupPending = 1

----------------------------------------------------------------------------
(* Claims about the voice-query cycle, checked under SpecMic *)

\* no recording is under way for the microphone control of popup p
MicIdle(p) ==
  \/ popups[p].mediaRecorder = 0
  \/ popups[p].recs[popups[p].mediaRecorder] = "inactive"

\* the chat container of popup pp shows the listening indicator with this id
ShowsIndicator(pp, id) ==
  \E i \in 1..Len(pp.chat) :
    pp.chat[i] = Bubble("plain", <<"Speak now...">>, id)

\* C8: Microphone activations alternate.  An activation while no recording is
\* under way requests microphone access, and once access is granted a new
\* recording is under way, the listening indicator is shown and the chunk list
\* is empty; the next activation stops that recording and requests nothing;
\* when the stopped recording, still the latest one, delivers its data, the
\* indicator is removed and the captured audio is uploaded as a single blob in
\* exactly one request.
C8_MicAlternates ==
  [][\A p \in DOMAIN popups :
       /\ (MicClick(p) /\ MicIdle(p)) =>
            /\ popups'[p].gum = popups[p].gum + 1
            /\ popups'[p].recs = popups[p].recs
            /\ pending' = pending
       /\ GumGranted(p) =>
            /\ Len(popups'[p].recs) = Len(popups[p].recs) + 1
            /\ popups'[p].mediaRecorder = Len(popups'[p].recs)
            /\ popups'[p].recs[popups'[p].mediaRecorder] = "recording"
            /\ popups'[p].audioChunks = <<>>
            /\ ShowsIndicator(popups'[p], popups'[p].recordingMsg)
            /\ popups'[p].micRecording
       /\ (MicClick(p) /\ ~MicIdle(p)) =>
            /\ popups'[p].recs[popups[p].mediaRecorder] = "inactive"
            /\ popups'[p].mediaRecorder = popups[p].mediaRecorder
            /\ popups'[p].gum = popups[p].gum
            /\ popups'[p].stopping = popups[p].stopping \cup {popups[p].mediaRecorder}
            /\ ~popups'[p].micRecording
       /\ \A r \in 1..MaxRecorders :
            (RecorderStopped(p, r) /\ r = popups[p].mediaRecorder) =>
              /\ ~ShowsIndicator(popups'[p], popups[p].recordingMsg)
              /\ \E q \in pending' :
                   /\ pending' = pending \cup {q}
                   /\ q \notin pending
                   /\ q.kind = "voice"
                   /\ q.blob = <<r>>]_vars

\* the third activation: a second recording is under way after the first one was
\* stopped and delivered, and the chunk list is empty again
C8_Witness ==
  /\ lastEvent.op = "gumGranted"
  /\ popups /= <<>>
  /\ popups[1].recs = <<"inactive", "recording">>
  /\ popups[1].mediaRecorder = 2
  /\ popups[1].stopping = {}
  /\ popups[1].audioChunks = <<>>

\* the redirect a response handler performed in this step, None for none
RedirectDone ==
  IF redirectLog' = redirectLog THEN None
  ELSE Some(redirectLog'[Len(redirectLog')])

\* C9: The voice-query path applies the same redirect logic as the text-query
\* path: for the same response fields, the same voice-navigation flag and the
\* transcript as the query text, the voice path redirects exactly where the
\* text path does, or neither redirects.
C9_SameRedirectLogic ==
  [][\A q \in pending, data \in {lastEvent'.data} :
       (VoiceResponse(q, data) /\ Truthy(data.transcript)) =>
         RedirectDone =
           TextRedirect(data, VoiceOn(popups[q.p]), data.transcript[1])]_vars

\* C10: A capture error on microphone activation (getUserMedia rejects:
\* permission denied or device unavailable) surfaces as exactly one bot error
\* bubble and the toast; no recording is started, no upload is issued, and the
\* microphone control is left as it was, so that it can be activated again.
C10_CaptureError ==
  [][\A p \in DOMAIN popups :
       GumDenied(p) =>
         /\ Messages(popups'[p].chat) =
              Append(Messages(popups[p].chat),
                     [text |-> <<"Microphone access or recording failed">>,
                      from |-> "bot"])
         /\ Len(popups'[p].chat) = Len(popups[p].chat) + 1
         /\ toast' = ToastMicDenied
         /\ popups'[p].recs = popups[p].recs
         /\ popups'[p].mediaRecorder = popups[p].mediaRecorder
         /\ popups'[p].micRecording = popups[p].micRecording
         /\ pending' = pending
         /\ popups'[p].gum = popups[p].gum - 1]_vars

\* access was denied on the first activation: the error bubble and the toast show,
\* no recorder exists and no request is pending
C10_Witness ==
  /\ lastEvent.op = "gumDenied"
  /\ popups /= <<>>
  /\ popups[1].recs = <<>>
  /\ popups[1].gum = 0
  /\ toast = ToastMicDenied
  /\ pending = {}
  /\ popups[1].chat = << Bubble("bot", MicAccessFailedText, 0) >>

----------------------------------------------------------------------------
(* Claims about both query paths, checked under SpecWidget *)

C12_NoRedirectWhenDisabled ==
  [][/\ \A q \in pending, data \in {lastEvent'.data} :
          ((QueryResponse(q, data) \/ VoiceResponse(q, data))
           /\ ~VoiceOn(popups[q.p])) => NoRedirect
     /\ (redirectLog' /= redirectLog /\ redirectLog' /= <<>>) =>
          /\ lastEvent'.op \in {"queryResponse", "voiceResponse"}
          /\ \E p \in DOMAIN popups : VoiceOn(popups[p])]_vars

\* with the checkbox unchecked, the query "MBA" was answered with an answer and
\* the redirect target /mca: no redirect happened and the toast says so
C12_Witness ==
  /\ lastEvent.op = "queryResponse"
  /\ lastEvent.data.redirect = Some(<<"/", "m", "c", "a">>)
  /\ lastEvent.data.answer = Some(<<"X">>)
  /\ Len(appended) = 2
  /\ appended[1] = [text |-> <<"M", "B", "A">>, from |-> "user"]
  /\ popups /= <<>>
  /\ popups[1].toggle = "unchecked"
  /\ redirectLog = <<>>
  /\ toast = ToastSkipped

C20_AudioPlayback ==
  [][\A q \in pending, data \in {lastEvent'.data} :
       (QueryResponse(q, data) /\ Truthy(data.answer) /\ Truthy(data.audio_file))
         => audioLog' = Append(audioLog, <<"/download_audio/">> \o data.audio_file[1])]_vars

----------------------------------------------------------------------------
(* The microphone under overlapping clicks, checked under SpecMicRace *)

\* the recorders of the popup that are recording
ActiveRecordings(pp) == {r \in 1..Len(pp.recs) : pp.recs[r] = "recording"}

\* the "Speak now..." indicators in the chat container
Indicators(pp) == {i \in 1..Len(pp.chat) : pp.chat[i].text = SpeakNowText}

\* C25: For any interleaving of microphone clicks with the completion of the
\* microphone-access request, a second click while access is still being
\* requested included: at most one recording is active at a time; the
\* listening indicator is present while a recording is active, never twice,
\* and the button is marked as recording exactly then; and every recording
\* that is active is the one the next click stops and uploads.
C25_OneActiveRecording ==
  \A p \in DOMAIN popups :
    /\ Cardinality(ActiveRecordings(popups[p])) <= 1
    /\ Cardinality(Indicators(popups[p])) <= 1
    /\ ActiveRecordings(popups[p]) /= {} => Indicators(popups[p]) /= {}
    /\ popups[p].micRecording <=> ActiveRecordings(popups[p]) /= {}
    /\ \A r \in ActiveRecordings(popups[p]) : r = popups[p].mediaRecorder

----------------------------------------------------------------------------
(* Claims about the keyword fallback, checked under SpecKeyword *)

\* the keywords in the order the claim lists them
StatedOrder ==
  << <<"m", "b", "a">>,
     <<"m", "c", "a">>,
     <<"b", "b", "a">>,
     <<"b", "c", "a">>,
     <<"m", "a">>,
     <<"b", "a">>,
     <<"s", "c", "h", "o", "l", "a", "r", "s", "h", "i", "p">>,
     <<"c", "o", "u", "r", "s", "e", "s">> >>

\* the paths the claim gives them: the mapped page name without ".html"
StatedPaths ==
  << <<"/", "m", "b", "a">>,
     <<"/", "m", "c", "a">>,
     <<"/", "b", "b", "a">>,
     <<"/", "b", "c", "a">>,
     <<"/", "m", "a">>,
     <<"/", "b", "a">>,
     <<"/", "i", "n", "d", "e", "x", "4">>,
     <<"/", "i", "n", "d", "e", "x", "3">> >>

\* the letters of the texts, lower-cased
Lowered(text) ==
  [i \in 1..Len(text) |->
     CASE text[i] = "M" -> "m" [] text[i] = "C" -> "c" [] text[i] = "A" -> "a"
       [] text[i] = "B" -> "b" [] OTHER -> text[i]]

\* k occurs as a substring of s
Occurs(k, s) == \E i \in 1..Len(s) : i + Len(k) - 1 <= Len(s) /\ SubSeq(s, i, i + Len(k) - 1) = k

\* the stated redirect for a text: the path of the first keyword, in the
\* stated order, that occurs in the lower-cased text; the empty set for none
StatedTarget(text) ==
  {StatedPaths[i] : i \in {j \in 1..Len(StatedOrder) :
       /\ Occurs(StatedOrder[j], Lowered(text))
       /\ \A h \in 1..(j - 1) : ~Occurs(StatedOrder[h], Lowered(text))}}

\* the redirects a step adds to those performed so far
NewRedirects == SubSeq(redirectLog', Len(redirectLog) + 1, Len(redirectLog'))

\* the step redirects as stated for the text: once to its target, or not at all
RedirectsAsStated(text) ==
  /\ Len(redirectLog') >= Len(redirectLog)
  /\ IF StatedTarget(text) = {} THEN NewRedirects = <<>>
     ELSE \E t \in StatedTarget(text) : NewRedirects = << t >>

\* C24: When the keyword fallback applies (voice navigation enabled, no
\* server redirect, and an answer to a typed query or a transcript of a spoken
\* one), the text is lower-cased and the response redirects to "/" followed
\* by the page name without ".html" of the first keyword, in the order mba,
\* mca, bba, bca, ma, ba, scholarship, courses, that occurs in it; a text
\* without a keyword causes no redirect; and no response issues more than one
\* redirect.
C24_KeywordFallback ==
  [][/\ \A q \in pending, data \in {lastEvent'.data} :
          QueryResponse(q, data) =>
            /\ Len(redirectLog') <= Len(redirectLog) + 1
            /\ (popups[q.p].toggle = "checked" /\ CarriesText(data.answer)
                /\ ~CarriesText(data.redirect)) => RedirectsAsStated(q.query)
     /\ \A q \in pending, data \in {lastEvent'.data} :
          VoiceResponse(q, data) =>
            /\ Len(redirectLog') <= Len(redirectLog) + 1
            /\ (popups[q.p].toggle = "checked" /\ CarriesText(data.transcript)
                /\ ~CarriesText(data.redirect))
                 => RedirectsAsStated(data.transcript[1])]_vars

\* the typed query "MCA MBA" was answered with voice navigation enabled and no
\* server redirect, and the page went to /mba
C24_Witness ==
  /\ lastEvent.op = "queryResponse"
  /\ lastEvent.data.redirect = None
  /\ Len(appended) = 2
  /\ appended[1] = [text |-> <<"M", "C", "A", " ", "M", "B", "A">>, from |-> "user"]
  /\ popups /= <<>>
  /\ popups[1].toggle = "checked"
  /\ redirectLog /= <<>>
  /\ redirectLog[Len(redirectLog)] = <<"/", "m", "b", "a">>

----------------------------------------------------------------------------
(* Claims about storage and the popup's life cycle *)

\* the stored form of a checkbox state
StoredPref(toggle) == IF toggle = "checked" THEN "true" ELSE "false"

\* C13: Voice-navigation preference round trip.  When the user changes the
\* checkbox to a value v, the durable key voiceNavEnabled holds v afterwards;
\* nothing else writes the key, page loads included; and every popup creation
\* whose markup has the checkbox, on the same or a later page load, seeds it
\* with the value the key holds.
C13_VoicePrefRoundTrip ==
  [][/\ \A p \in DOMAIN popups :
          VoiceToggleChange(p) =>
            /\ popups'[p].toggle /= popups[p].toggle
            /\ lsVoiceNav' = StoredPref(popups'[p].toggle)
     /\ lsVoiceNav' /= lsVoiceNav => lastEvent'.op = "voiceToggle"
     /\ \A markup \in MarkupToggles \ {"absent"} :
          (MarkupLoaded(markup) /\ lsVoiceNav \in {"true", "false"}) =>
            StoredPref(popups'[Len(popups')].toggle) = lsVoiceNav]_vars

\* the checkbox was unchecked on an earlier page; on this page the popup was
\* just created, the first of the page, and its checkbox is unchecked
C13_Witness ==
  /\ lastEvent.op = "markupLoaded"
  /\ lsVoiceNav = "false"
  /\ Len(popups) = 1
  /\ popups[1].toggle = "unchecked"

\* a page has just finished loading and the open flag reads "true"
LoadedOpen == lastEvent.op = "load" /\ ssChatbotOpen = "true"

\* the popup is open and shows the stored chat history
Reopened ==
  /\ popupLoaded
  /\ popups /= <<>>
  /\ popups[1].display = "flex"
  /\ Messages(popups[1].chat) = HistoryOf(ssChatHistory)

\* C14: Continuity across navigation.  Every redirect of the widget writes the
\* open flag "true" before navigating; if the flag is "true" when a page
\* finishes loading, then without user action the popup is eventually open and
\* shows the stored chat history, unless the markup fetch fails; if the flag
\* is not "true", no timer is armed, and a fetch of the markup is started only
\* by a click of the user or by the timer.
C14_Continuity ==
  /\ [][(redirectLog' /= redirectLog /\ redirectLog' /= <<>>) =>
          ssChatbotOpen' = "true"]_vars
  /\ [](lastEvent.op \in {"load", "loadCleared"} =>
          (autoTimer <=> ssChatbotOpen = "true"))
  /\ [][markupPending' > markupPending =>
          \/ lastEvent'.op = "buttonClick"
          \/ lastEvent'.op = "autoReopen" /\ autoTimer]_vars
  /\ (LoadedOpen ~> (Reopened \/ lastEvent.op = "markupFailed"))

\* a page loaded after the exchange about "MBA" holds a newly created popup:
\* the markup has just arrived, the popup is open and shows the two bubbles
\* that were stored on the page before
C14_Witness ==
  /\ lastEvent.op = "markupLoaded"
  /\ redirectLog = <<>>
  /\ Reopened
  /\ Len(popups[1].chat) = 2
  /\ popups[1].chat[1] = Bubble("user", <<"M", "B", "A">>, 0)
  /\ ssChatbotOpen = "true"

\* C15: The stored open flag is written on every visibility change: in every
\* state where the popup is loaded and no redirect is in progress, chatbotOpen
\* reads "true" exactly when the popup is displayed and "false" exactly when
\* it is hidden.
C15_OpenFlagTracksVisibility ==
  (popupLoaded /\ popups /= <<>> /\ redirectLog = <<>>) =>
    /\ ssChatbotOpen = "true" <=> popups[1].display = "flex"
    /\ ssChatbotOpen = "false" <=> popups[1].display = "none"

\* C21: After any sequence of button clicks and markup-fetch completions in
\* any interleaving, including a second click, or the click of the auto-reopen
\* timer, that arrives while the first fetch is still pending, at most one
\* #chatbotPopup element is attached to the page, so that the stored history
\* is replayed into the page at most once per page load.
C21_AtMostOnePopup == Len(popups) <= 1

\* the texts of the loading, listening and processing placeholders
PlaceholderTexts == {LoadingText, SpeakNowText, ProcessingText}

\* C22: In every reachable state with a loaded popup, the sequence of
\* chat-message bubbles shown in the chat container of each attached popup
\* (text and sender, in order) equals the chatHistory array in session
\* storage; loading and listening placeholders are never part of the stored
\* array.
C22_BubblesEqualHistory ==
  popupLoaded =>
    /\ \A p \in DOMAIN popups :
         Messages(popups[p].chat) = HistoryOf(ssChatHistory)
    /\ \A i \in 1..Len(HistoryOf(ssChatHistory)) :
         HistoryOf(ssChatHistory)[i].text \notin PlaceholderTexts

\* a is an initial part of b
IsPrefix(a, b) == Len(a) <= Len(b) /\ SubSeq(b, 1, Len(a)) = a

\* C23: With several text queries pending at once and their responses
\* arriving in any order, the stored history only grows by appends (short of
\* a confirmed clear, every earlier history is a prefix of every later one);
\* a submission appends its user message last, so user bubbles appear in the
\* order of submission; the user bubble of a query is in the container, right
\* before the query's placeholder, when its response is handled and the bot
\* bubble is appended last; and each settled query contributes exactly one
\* bot bubble and is settled once.
C23_OverlappingQueries ==
  [][/\ lastEvent'.op /= "loadCleared" =>
          IsPrefix(HistoryOf(ssChatHistory), HistoryOf(ssChatHistory'))
     /\ \A p \in DOMAIN popups, raw \in RawInputs :
          (SendQueryWithin(p, raw, MaxOverlap) /\ Trim(raw) /= <<>>) =>
            LET m == [text |-> Trim(raw), from |-> "user"]
            IN /\ HistoryOf(ssChatHistory') = Append(HistoryOf(ssChatHistory), m)
               /\ Messages(popups'[p].chat) = Append(Messages(popups[p].chat), m)
     /\ \A q \in pending :
          (QueryFailed(q) \/ \E data \in {lastEvent'.data} : QueryResponse(q, data)) =>
            LET h == HistoryOf(ssChatHistory')
                chat == popups[q.p].chat
            IN /\ Len(h) = Len(HistoryOf(ssChatHistory)) + 1
               /\ h[Len(h)].from = "bot"
               /\ Messages(popups'[q.p].chat) = Append(Messages(chat), h[Len(h)])
               /\ \E i \in 2..Len(chat) :
                    /\ chat[i].id = q.lid
                    /\ chat[i - 1] = Bubble("user", q.query, 0)
               /\ \A i \in 1..Len(popups'[q.p].chat) : popups'[q.p].chat[i].id /= q.lid
               /\ pending' = pending \ {q}]_vars

\* two queries were pending and the response to the second arrived first: its
\* bot bubble follows both user bubbles, and the first query still shows its
\* placeholder
C23_Witness ==
  /\ lastEvent.op = "queryResponse"
  /\ popups /= <<>>
  /\ Len(popups[1].chat) = 4
  /\ popups[1].chat[1].cls = "user"
  /\ popups[1].chat[2].cls = "plain"
  /\ popups[1].chat[3].cls = "user"
  /\ popups[1].chat[4].cls = "bot"
  /\ \E q \in pending : q.lid = popups[1].chat[2].id /\ pending = {q}

\* C27: On a page load detected as a reload, the stored chat history and the
\* open flag are both removed if the user confirms the prompt and both kept
\* unchanged if the user declines; on a page load that is not a reload
\* neither is touched.  After a confirmed clear the popup is not auto-reopened
\* (the timer is not armed, and only a page load that finds the open flag set
\* arms it) and, when next opened, it shows an empty history (the history
\* stays removed while the page has no popup, and a popup built from a removed
\* history has an empty chat container).
C27_ReloadClear ==
  [][/\ \A reload \in BOOLEAN, confirmed \in BOOLEAN :
          PageLoad(reload, confirmed) =>
            IF reload /\ confirmed
            THEN /\ ssChatHistory' = None
                 /\ ssChatbotOpen' = "null"
                 /\ ~autoTimer'
                 /\ popups' = <<>>
            ELSE /\ ssChatHistory' = ssChatHistory
                 /\ ssChatbotOpen' = ssChatbotOpen
     /\ (autoTimer' /\ ~autoTimer) =>
          lastEvent'.op = "load" /\ ssChatbotOpen' = "true"
     /\ (popups = <<>> /\ ssChatHistory = None) => ssChatHistory' = None
     /\ \A markup \in MarkupToggles :
          (MarkupLoaded(markup) /\ ssChatHistory = None) =>
            /\ Len(popups') = Len(popups) + 1
            /\ popups'[Len(popups')].chat = <<>>]_vars

\* a confirmed reload in a session whose popup had been open (its checkbox
\* was used): history and open flag are removed and the timer is not armed
C27_Witness ==
  /\ lastEvent.op = "loadCleared"
  /\ lsVoiceNav /= "null"
  /\ ssChatHistory = None
  /\ ssChatbotOpen = "null"
  /\ ~autoTimer
  /\ popups = <<>>

----------------------------------------------------------------------------
(* Claims about dragging, checked under SpecDrag *)

\* what the open/close state machine and the chat show of a popup
Shown(pp) == << pp.display, pp.chat, pp.toggle >>

\* where the popup is
Position(pp) == << pp.left, pp.top >>

\* the step is a pointer event handled by the drag listeners
PointerEvent ==
  \/ \E p \in DOMAIN popups, x \in Coords, y \in Coords : MouseDown(p, x, y)
  \/ MouseUp
  \/ \E x \in Coords, y \in Coords : MouseMove(x, y)

\* C28: Dragging is independent of the open/close state machine: pointer-down,
\* pointer-move and pointer-up events never change the popup's visibility, the
\* stored open flag or the chat history, and the popup's position changes only
\* on a pointer-move that happens after a pointer-down on the popup content
\* and before the next pointer-up (the popup is held from a pointer-down on
\* its content, and by nothing else, until a pointer-up).
C28_DragIndependent ==
  [][/\ PointerEvent =>
          /\ DOMAIN popups' = DOMAIN popups
          /\ \A p \in DOMAIN popups : Shown(popups'[p]) = Shown(popups[p])
          /\ ssChatbotOpen' = ssChatbotOpen
          /\ ssChatHistory' = ssChatHistory
          /\ popupLoaded' = popupLoaded
     /\ \A p \in DOMAIN popups :
          /\ (p \in DOMAIN popups' /\ Position(popups'[p]) /= Position(popups[p])) =>
               lastEvent'.op = "mouseMove" /\ popups[p].isDown
          /\ (p \in DOMAIN popups' /\ popups'[p].isDown /\ ~popups[p].isDown) =>
               \E x \in Coords, y \in Coords : MouseDown(p, x, y)
     /\ MouseUp => \A p \in DOMAIN popups' : ~popups'[p].isDown
     /\ \A markup \in MarkupToggles :
          MarkupLoaded(markup) => ~popups'[Len(popups')].isDown]_vars

\* after a pointer-up, a popup that took a query is closed and lies away from
\* where it was built: a drag moved it, and it is hidden with the open flag
\* saying so
C28_Witness ==
  /\ lastEvent.op = "mouseUp"
  /\ popups /= <<>>
  /\ popups[1].display = "none"
  /\ ssChatbotOpen = "false"
  /\ Position(popups[1]) = << MaxCoord, MaxCoord >>
  /\ ~popups[1].isDown
  /\ ssChatHistory /= None

----------------------------------------------------------------------------
(* Claims about the page outside the popup, checked under SpecSite *)

\* the navigation control was toggled an even number of times, twice or more
ToggledTwice == dom.hamburgerClicks > 0 /\ dom.hamburgerClicks % 2 = 0

\* C16 as stated: toggling the navigation control twice returns aria-expanded
\* and the presence of the show class on the menu to their original values,
\* for every initial state of the attribute ("true", "false" or absent) and
\* of the class.
C16_ToggleTwiceAsStated ==
  ToggledTwice =>
    /\ dom.ariaExpanded = dom.origAria
    /\ dom.navShow = dom.origShow

\* C16, amended: toggling the navigation control twice returns the presence
\* of the show class to its original value, and returns aria-expanded to its
\* original value when that was "true" or "false"; when the attribute was
\* absent it reads "false" after two toggles.
C16_ToggleTwice ==
  ToggledTwice =>
    /\ dom.navShow = dom.origShow
    /\ dom.origAria \in {"true", "false"} => dom.ariaExpanded = dom.origAria
    /\ dom.origAria = "absent" => dom.ariaExpanded = "false"

\* an expanded menu was toggled twice and is expanded again
C16_Witness ==
  /\ lastEvent.op = "hamburger"
  /\ dom.hamburgerClicks = 2
  /\ dom.origAria = "true"
  /\ dom.origShow
  /\ dom.ariaExpanded = "true"
  /\ dom.navShow

C18_EnsureButtonIdempotent ==
  /\ [](dom.ensureCalls >= 1 => dom.btns = 1 /\ dom.styles <= 1)
  /\ [][(EnsureCall /\ dom.btns >= 1) =>
          dom' = [dom EXCEPT !.ensureCalls = @ + 1]]_vars

\* the page had no button; after two calls it has one button and one style
C18_Witness ==
  /\ lastEvent.op = "ensure"
  /\ dom.origBtns = 0
  /\ dom.ensureCalls = 2
  /\ dom.btns = 1
  /\ dom.styles = 1

\* the modal is not displayed
Hidden(m) == m.display /= "block"

\* the text fields of the modal
TextFields(m) == << m.title, m.desc, m.elig, m.duration, m.adm, m.fees >>

\* C26: The three modal dismissal triggers (close icon, click on the modal
\* backdrop, Escape key) are equivalent: from a shown modal each one leaves
\* the modal hidden with its text fields unchanged, from a hidden modal each
\* one leaves it hidden, and a click whose target is inside the modal content
\* does not hide it.
C26_DismissalsEquivalent ==
  [][/\ (ModalCloseClick \/ WindowClick("modal") \/ KeyDown("Escape")) =>
          /\ Hidden(dom'.modal)
          /\ TextFields(dom'.modal) = TextFields(dom.modal)
     /\ WindowClick("content") => dom'.modal = dom.modal]_vars

\* the modal that showed BBA was dismissed with the Escape key: it is hidden
\* and still holds BBA's texts
C26_Witness ==
  /\ lastEvent.op = "keyDown"
  /\ dom.modal.display = "none"
  /\ dom.modal.title = <<"B", "B", "A">>
  /\ dom.modal.fees = "Approx. $8,000 per year"

====
